---- MODULE Spec2Model ----
(***************************************************************************)
(* Model of website/server.py: the Flask handler run_script() behind       *)
(* POST /run.  Every request is served by its own handler invocation       *)
(* (app.run serves requests in threads), so the steps of different         *)
(* requests interleave freely.  The child process started by               *)
(* subprocess.run is part of the environment: it exits, if it ever does,   *)
(* with some return code and some captured stdout / stderr text.           *)
(*                                                                         *)
(* Environment assumption: the interpreter can be launched and the         *)
(* captured streams decode as text, i.e. subprocess.run returns, raises    *)
(* CalledProcessError, or blocks.                                          *)
(***************************************************************************)
EXTENDS Integers, Sequences, FiniteSets, TLC

\* Number of POST /run requests in a behaviour.
MaxRequests == 2

Requests == 1..MaxRequests

---------------------------------------------------------------------------
\* JSON / Python values: a type tag and a printed value.

Str(s) == [t |-> "str", v |-> s]

None == [t |-> "null", v |-> ""]

\* A local variable that has not been assigned yet.
Unset == [t |-> "unset", v |-> ""]

\* Values the "script" member of the request body can carry.
ScriptValues ==
    { Str("dein_script.py"), Str("other.py"), Str("Dein_Script.py"),
      Str("./dein_script.py"), Str(""), None,
      [t |-> "num", v |-> "1"], [t |-> "list", v |-> "dein_script.py"] }

EmptyObject == [k \in {} |-> None]

\* Request bodies: a JSON object (with or without "script"), JSON that is
\* not an object, or a body the framework cannot load as JSON.
Bodies ==
    { [kind |-> "object", json |-> ("script" :> s)] : s \in ScriptValues }
      \cup { [kind |-> "object", json |-> EmptyObject] }
      \cup { [kind |-> "nonobject", json |-> ("value" :> j)]
               : j \in {None, Str("dein_script.py")} }
      \cup { [kind |-> "malformed", json |-> EmptyObject] }

\* What the child process can write and return.
Texts == {"hello", "boom"}

ReturnCodes == {0, 1, -9}

---------------------------------------------------------------------------
VARIABLES
    st,                 \* st[r]: where request r is in run_script
    request_json,       \* request_json[r]: the body request r carries
    script,             \* script[r]: the handler's local `script`
    erlaubte_skripte,   \* erlaubte_skripte[r]: the handler's local allow-list
    result,             \* result[r]: the child the handler waits on (0: none)
    response,           \* response[r]: what was sent back
    procs               \* every child process ever spawned, in spawn order

vars == <<st, request_json, script, erlaubte_skripte, result, response, procs>>

NoResponse == [status |-> 0, key |-> "", val |-> ""]

NoBody == [kind |-> "none", json |-> EmptyObject]

Terminal == {"rejected", "succeeded", "failed", "error"}

---------------------------------------------------------------------------
\* Python semantics used by the handler.

\* dict.get(key): the member, or None when it is absent.
dict_get(obj, key) == IF key \in DOMAIN obj THEN obj[key] ELSE None

\* Variant: names are compared after folding case and a leading "./".
Normalise(v) ==
    CASE v = "Dein_Script.py" -> "dein_script.py"
      [] v = "./dein_script.py" -> "dein_script.py"
      [] OTHER -> v

PyEqNormalised(x, y) == x.t = y.t /\ Normalise(x.v) = Normalise(y.v)

\* x == y on JSON values: equal type and equal value, nothing normalised.
PyEq(x, y) == x.t = y.t /\ x.v = y.v

\* x in list
PyIn(x, list) == \E i \in 1..Len(list) : PyEq(list[i], x)

\* The list literal of line 14.
AllowListLiteral == << Str("dein_script.py") >>

\* The interpreter named in the argv of line 18.
Interpreter == Str("python3")

\* Variant: the rejection is sent as a plain bad request.
RejectResponseBadRequest ==
    [status |-> 400, key |-> "error", val |-> "Script nicht erlaubt"]

\* jsonify({"error": "Script nicht erlaubt"}), 403
RejectResponse == [status |-> 403, key |-> "error", val |-> "Script nicht erlaubt"]

\* Variant: the success body is filled from the other stream.
SuccessResponseStderr(p) == [status |-> 200, key |-> "output", val |-> p.stderr]

\* jsonify({"output": result.stdout})   (status 200 by default)
SuccessResponse(p) == [status |-> 200, key |-> "output", val |-> p.stdout]

\* Variant: the failure body is filled from the other stream.
FailureResponseStdout(p) == [status |-> 400, key |-> "error", val |-> p.stdout]

\* jsonify({"error": e.stderr}), 400
FailureResponse(p) == [status |-> 400, key |-> "error", val |-> p.stderr]

\* The framework's own answer when the handler raises.
FrameworkError(code) == [status |-> code, key |-> "html", val |-> "framework error page"]

\* Variant: the handler reads the most recently spawned child.
LatestProc(r) == procs[Len(procs)]

\* The child process the handler of r is blocked on.
OwnProc(r) == procs[result[r]]

---------------------------------------------------------------------------
Init ==
    /\ st = [r \in Requests |-> "new"]
    /\ request_json = [r \in Requests |-> NoBody]
    /\ script = [r \in Requests |-> Unset]
    /\ erlaubte_skripte = [r \in Requests |-> << >>]
    /\ result = [r \in Requests |-> 0]
    /\ response = [r \in Requests |-> NoResponse]
    /\ procs = << >>

\* Variant: a failed child takes the server down; nothing is received
\* afterwards.
ReceiveUnlessCrashed(r) ==
    /\ \A q \in Requests : st[q] # "failed"
    /\ st[r] = "new"
    /\ \E b \in Bodies : request_json' = [request_json EXCEPT ![r] = b]
    /\ st' = [st EXCEPT ![r] = "validating"]
    /\ UNCHANGED <<script, erlaubte_skripte, result, response, procs>>

\* Route dispatch: a POST /run request arrives and run_script is entered.
Receive(r) ==
    /\ st[r] = "new"
    /\ \E b \in Bodies : request_json' = [request_json EXCEPT ![r] = b]
    /\ st' = [st EXCEPT ![r] = "validating"]
    /\ UNCHANGED <<script, erlaubte_skripte, result, response, procs>>

\* Line 12 raises: request.json aborts with 400 on a body that does not
\* parse as JSON, and .get does not exist on JSON that is not an object,
\* which the framework answers with 500.
BadBody(r) ==
    /\ st[r] = "validating"
    /\ request_json[r].kind # "object"
    /\ response' = [response EXCEPT ![r] =
          FrameworkError(IF request_json[r].kind = "malformed" THEN 400 ELSE 500)]
    /\ st' = [st EXCEPT ![r] = "error"]
    /\ UNCHANGED <<request_json, script, erlaubte_skripte, result, procs>>

\* Variant: `if script and script not in erlaubte_skripte`, which lets
\* null and the empty string through.
ValidateTruthy(r) ==
    /\ st[r] = "validating"
    /\ request_json[r].kind = "object"
    /\ LET s == dict_get(request_json[r].json, "script")
           a == AllowListLiteral
       IN /\ script' = [script EXCEPT ![r] = s]
          /\ erlaubte_skripte' = [erlaubte_skripte EXCEPT ![r] = a]
          /\ IF s \notin {None, Str("")} /\ ~ PyIn(s, a)
               THEN /\ st' = [st EXCEPT ![r] = "rejected"]
                    /\ response' = [response EXCEPT ![r] = RejectResponse]
               ELSE /\ st' = [st EXCEPT ![r] = "running"]
                    /\ UNCHANGED response
    /\ UNCHANGED <<request_json, result, procs>>

\* Lines 12-16: read `script`, build the allow-list, reject or go on.
Validate(r) ==
    /\ st[r] = "validating"
    /\ request_json[r].kind = "object"
    /\ LET s == dict_get(request_json[r].json, "script")
           a == AllowListLiteral
       IN /\ script' = [script EXCEPT ![r] = s]
          /\ erlaubte_skripte' = [erlaubte_skripte EXCEPT ![r] = a]
          /\ IF ~ PyIn(s, a)
               THEN /\ st' = [st EXCEPT ![r] = "rejected"]
                    /\ response' = [response EXCEPT ![r] = RejectResponse]
               ELSE /\ st' = [st EXCEPT ![r] = "running"]
                    /\ UNCHANGED response
    /\ UNCHANGED <<request_json, result, procs>>

\* Variant: the child is started through a shell.
SpawnShell(r) ==
    /\ st[r] = "running"
    /\ result[r] = 0
    /\ procs' = Append(procs, [owner |-> r,
                               argv |-> <<Str("sh"), Str("-c"), script[r]>>,
                               state |-> "running", returncode |-> 0,
                               stdout |-> "", stderr |-> ""])
    /\ result' = [result EXCEPT ![r] = Len(procs) + 1]
    /\ UNCHANGED <<st, request_json, script, erlaubte_skripte, response>>

\* Line 18, first half: subprocess.run starts the child ["python3", script].
Spawn(r) ==
    /\ st[r] = "running"
    /\ result[r] = 0
    /\ procs' = Append(procs, [owner |-> r, argv |-> <<Interpreter, script[r]>>,
                               state |-> "running", returncode |-> 0,
                               stdout |-> "", stderr |-> ""])
    /\ result' = [result EXCEPT ![r] = Len(procs) + 1]
    /\ UNCHANGED <<st, request_json, script, erlaubte_skripte, response>>

\* Environment: child p exits; its streams have been captured as text.
ProcExit(p) ==
    /\ p \in 1..Len(procs)
    /\ procs[p].state = "running"
    /\ \E rc \in ReturnCodes, out \in Texts, err \in Texts :
          procs' = [procs EXCEPT ![p] = [@ EXCEPT !.state = "exited",
                                                  !.returncode = rc,
                                                  !.stdout = out,
                                                  !.stderr = err]]
    /\ UNCHANGED <<st, request_json, script, erlaubte_skripte, result, response>>

\* Variant: a failed child is run again instead of being reported.
ReturnRetry(r) ==
    /\ st[r] = "running"
    /\ result[r] # 0
    /\ OwnProc(r).state = "exited"
    /\ IF OwnProc(r).returncode = 0
         THEN /\ st' = [st EXCEPT ![r] = "succeeded"]
              /\ response' = [response EXCEPT ![r] = SuccessResponse(OwnProc(r))]
              /\ UNCHANGED result
         ELSE /\ result' = [result EXCEPT ![r] = 0]
              /\ UNCHANGED <<st, response>>
    /\ UNCHANGED <<request_json, script, erlaubte_skripte, procs>>

\* Variant: subprocess.run(..., timeout=...) gives up on a child that is
\* still running; TimeoutExpired is not caught by the handler.
ReturnOnTimeout(r) ==
    /\ st[r] = "running"
    /\ result[r] # 0
    /\ \/ /\ OwnProc(r).state = "exited"
          /\ IF OwnProc(r).returncode = 0
               THEN /\ st' = [st EXCEPT ![r] = "succeeded"]
                    /\ response' = [response EXCEPT ![r] = SuccessResponse(OwnProc(r))]
               ELSE /\ st' = [st EXCEPT ![r] = "failed"]
                    /\ response' = [response EXCEPT ![r] = FailureResponse(OwnProc(r))]
       \/ /\ OwnProc(r).state = "running"
          /\ st' = [st EXCEPT ![r] = "error"]
          /\ response' = [response EXCEPT ![r] = FrameworkError(500)]
    /\ UNCHANGED <<request_json, script, erlaubte_skripte, result, procs>>

\* Lines 18-21, second half: the child has exited; check=True turns a
\* non-zero return code into CalledProcessError, caught at line 20.
Return(r) ==
    /\ st[r] = "running"
    /\ result[r] # 0
    /\ OwnProc(r).state = "exited"
    /\ IF OwnProc(r).returncode = 0
         THEN /\ st' = [st EXCEPT ![r] = "succeeded"]
              /\ response' = [response EXCEPT ![r] = SuccessResponse(OwnProc(r))]
         ELSE /\ st' = [st EXCEPT ![r] = "failed"]
              /\ response' = [response EXCEPT ![r] = FailureResponse(OwnProc(r))]
    /\ UNCHANGED <<request_json, script, erlaubte_skripte, result, procs>>

Next ==
    \/ \E r \in Requests : Receive(r)
    \/ \E r \in Requests : BadBody(r)
    \/ \E r \in Requests : Validate(r)
    \/ \E r \in Requests : Spawn(r)
    \/ \E p \in Requests : ProcExit(p)
    \/ \E r \in Requests : Return(r)

Spec == Init /\ [][Next]_vars

\* The handler's own steps always get to run; whether a child process ever
\* exits is up to the script, so ProcExit carries no fairness.
FairSpec ==
    /\ Spec
    /\ \A r \in Requests :
          /\ WF_vars(BadBody(r))
          /\ WF_vars(Validate(r))
          /\ WF_vars(Spawn(r))
          /\ WF_vars(Return(r))

---------------------------------------------------------------------------
\* Vocabulary of the properties.

AllowedName == Str("dein_script.py")

\* The `script` member request r sent (None when it sent none).
SentScript(r) == dict_get(request_json[r].json, "script")

\* Request r carries a JSON object, so it has a `script` value to check.
HasObject(r) == request_json[r].kind = "object"

\* The child processes spawned for request r.
ProcsOf(r) == { p \in 1..Len(procs) : procs[p].owner = r }

Answered(r) == response[r] # NoResponse

---------------------------------------------------------------------------
\* C1: default deny.  A request whose `script` value is not exactly the
\* allow-listed name (another name, a case or path variant, the empty
\* string, null, an omitted member, a non-string) is never moved past the
\* check, is answered with 403 if answered at all, and no child process is
\* ever spawned for it.
C1_DefaultDeny ==
    \A r \in Requests :
        (HasObject(r) /\ SentScript(r) # AllowedName) =>
            /\ st[r] \in {"validating", "rejected"}
            /\ (Answered(r) => response[r].status = 403)
            /\ (st[r] = "rejected" => Answered(r))
            /\ ProcsOf(r) = {}
            /\ result[r] = 0

\* Rejections of an omitted member, a case variant and a non-string value.
C1_Witness ==
    \E r1, r2 \in Requests :
        /\ st[r1] = "rejected" /\ request_json[r1].json = EmptyObject
        /\ st[r2] = "rejected"
        /\ SentScript(r2) \in {Str("Dein_Script.py"), [t |-> "list", v |-> "dein_script.py"]}

\* C2: a request for the allow-listed script whose child exited with
\* status 0 is answered 200 with the single member "output" holding
\* exactly the child's captured stdout; the captured stderr is not sent.
C2_SuccessOutput ==
    \A r \in Requests : \A p \in ProcsOf(r) :
        (st[r] \in Terminal /\ procs[p].state = "exited" /\ procs[p].returncode = 0) =>
            response[r] = [status |-> 200, key |-> "output", val |-> procs[p].stdout]

C2_Witness ==
    \E r \in Requests : \E p \in ProcsOf(r) :
        /\ st[r] = "succeeded"
        /\ procs[p].returncode = 0
        /\ procs[p].stdout = "hello" /\ procs[p].stderr = "boom"
        /\ response[r].val = "hello"

\* C3: a request for the allow-listed script whose child exited with a
\* non-zero status is answered 400 with the single member "error" holding
\* exactly the child's captured stderr; no second child is run for it.
C3_FailureError ==
    \A r \in Requests : \A p \in ProcsOf(r) :
        (st[r] \in Terminal /\ procs[p].state = "exited" /\ procs[p].returncode # 0) =>
            /\ response[r] = [status |-> 400, key |-> "error", val |-> procs[p].stderr]
            /\ ProcsOf(r) = {p}

C3_Witness ==
    \E r \in Requests : \E p \in ProcsOf(r) :
        /\ st[r] = "failed"
        /\ procs[p].returncode = -9
        /\ procs[p].stdout = "hello" /\ procs[p].stderr = "boom"
        /\ response[r].val = "boom"

\* Requests that passed the allow-list check.
Passed == { r \in Requests : st[r] \in {"running", "succeeded", "failed"} }

\* Passed requests whose handler has not reached the spawn yet.
AboutToSpawn == { r \in Passed : st[r] = "running" /\ result[r] = 0 }

\* C4: the children spawned are exactly one per request that passed the
\* allow-list check and reached the spawn: none for any other request,
\* never a second one for a request (no retry after a failure), and a
\* child of its own for every repeated request (no reuse of a result).
C4_OneProcessPerValidated ==
    /\ \A r \in Requests : ProcsOf(r) # {} => r \in Passed
    /\ \A r \in Passed \ AboutToSpawn : Cardinality(ProcsOf(r)) = 1
    /\ \A r \in AboutToSpawn : ProcsOf(r) = {}
    /\ Len(procs) + Cardinality(AboutToSpawn) = Cardinality(Passed)
    /\ ((\A r \in Requests : st[r] \in Terminal) => Len(procs) = Cardinality(Passed))

\* Two identical requests, one failed and one succeeded, two children.
C4_Witness ==
    \E r1, r2 \in Requests :
        /\ request_json[r1] = request_json[r2]
        /\ st[r1] = "failed" /\ st[r2] = "succeeded"
        /\ Len(procs) = 2

\* C5: under any interleaving, an answered request carries the outcome of
\* the child spawned for that same request: status and text are those of
\* its own child, which has exited, whatever other children have done.
C5_NoCrossTalk ==
    \A r \in Passed :
        Answered(r) =>
            \E p \in ProcsOf(r) :
                /\ procs[p].state = "exited"
                /\ response[r].status = (IF procs[p].returncode = 0 THEN 200 ELSE 400)
                /\ response[r].val = (IF procs[p].returncode = 0 THEN procs[p].stdout
                                                                 ELSE procs[p].stderr)

\* r2 spawned first and is still being handled when r1, spawned later, is
\* answered; the two children produced different results.
C5_Witness ==
    \E r1, r2 \in Requests : \E p1 \in ProcsOf(r1), p2 \in ProcsOf(r2) :
        /\ p2 < p1
        /\ st[r1] = "succeeded" /\ st[r2] = "running"
        /\ procs[p2].state = "exited"
        /\ procs[p2].returncode # 0
        /\ procs[p1].stdout # procs[p2].stdout
        /\ procs[p1].stdout # procs[p2].stderr

\* The transitions of the per-request state machine.
Transitions ==
    { <<"new", "validating">>,
      <<"validating", "rejected">>, <<"validating", "running">>,
      <<"running", "succeeded">>, <<"running", "failed">> }

\* What holds of request r in every state if it follows the state machine.
FollowsMachine(r) ==
    /\ st[r] \in {"new", "validating", "running", "rejected", "succeeded", "failed"}
    /\ (st[r] \in {"running", "succeeded", "failed"} => SentScript(r) = AllowedName)
    /\ (st[r] \in {"succeeded", "failed"} =>
            \E p \in ProcsOf(r) : procs[p].state = "exited")
    /\ (Answered(r) <=> st[r] \in {"rejected", "succeeded", "failed"})
    /\ (st[r] = "rejected" => response[r].status = 403)
    /\ (st[r] = "succeeded" => response[r].status = 200)
    /\ (st[r] = "failed" => response[r].status = 400)

ChildExited(r) == \E p \in ProcsOf(r) : procs[p].state = "exited"

\* C7: no timeout.  A request that passed the check is answered only if
\* its child has exited; while the child has not exited the request stays
\* running and no step of its handler is possible other than the spawn;
\* once the child has exited the request is eventually answered.
C7_NoTimeout ==
    /\ [](\A r \in Passed :
            /\ (Answered(r) => ChildExited(r))
            /\ (~ ChildExited(r) => st[r] = "running" /\ ~ ENABLED Return(r)))
    /\ \A r \in Requests : (r \in Passed /\ ChildExited(r)) ~> Answered(r)

\* One request answered after its child exited while another is still
\* blocked on a child that has not exited.
C7_Witness ==
    \E r1, r2 \in Requests : \E p2 \in ProcsOf(r2) :
        /\ st[r1] \in {"succeeded", "failed"} /\ ChildExited(r1)
        /\ st[r2] = "running" /\ procs[p2].state = "running"

\* The result of the child spawned for request r, if there is one.
OwnResult(r) ==
    IF ProcsOf(r) = {} THEN << >>
    ELSE LET p == CHOOSE q \in ProcsOf(r) : TRUE
         IN <<procs[p].state, procs[p].returncode, procs[p].stdout, procs[p].stderr>>

C9_Original ==
    \A r \in Requests :
        st[r] = "rejected" =>
            response[r] = [status |-> 403, key |-> "error", val |-> "Script not allowed"]

\* C9, amended: every rejection is 403 with the same fixed body
\* {"error": "Script nicht erlaubt"}, whichever value was sent; the value
\* is not echoed.
C9_FixedRejection ==
    \A r \in Requests :
        st[r] = "rejected" =>
            response[r] = [status |-> 403, key |-> "error", val |-> "Script nicht erlaubt"]

\* Two rejections of different values.
C9_Witness ==
    \E r1, r2 \in Requests :
        /\ st[r1] = "rejected" /\ st[r2] = "rejected"
        /\ SentScript(r1) = Str("other.py") /\ SentScript(r2) = Str("")
        /\ response[r1] = response[r2]

\* C10: every child ever spawned was started as python3 with exactly one
\* argument, the `script` value of the request it was spawned for, and
\* that value is a member of the allow-list; the allow-list a handler
\* uses is always the same one-element list and no step changes it.
C10_FixedInvocation ==
    /\ [](\A p \in 1..Len(procs) :
            /\ Len(procs[p].argv) = 2
            /\ procs[p].argv[1] = Str("python3")
            /\ procs[p].argv[2] = SentScript(procs[p].owner)
            /\ procs[p].argv[2] = AllowedName
            /\ \E i \in 1..Len(erlaubte_skripte[procs[p].owner]) :
                  erlaubte_skripte[procs[p].owner][i] = procs[p].argv[2])
    /\ [](\A r \in Requests :
            /\ erlaubte_skripte[r] \in { << >>, <<AllowedName>> }
            /\ (st[r] \in {"running", "rejected", "succeeded", "failed"}
                  => erlaubte_skripte[r] = <<AllowedName>>))
    /\ [][\A r \in Requests :
            /\ (erlaubte_skripte[r] # << >> => erlaubte_skripte'[r] = erlaubte_skripte[r])
            /\ \A p \in 1..Len(procs) : procs'[p].argv = procs[p].argv]_vars

\* Two children have been spawned and have exited, each for a request
\* that used the one-element allow-list.
C10_Witness ==
    \E r1, r2 \in Requests : \E p1 \in ProcsOf(r1), p2 \in ProcsOf(r2) :
        /\ r1 # r2
        /\ procs[p1].state = "exited" /\ procs[p2].state = "exited"
        /\ erlaubte_skripte[r1] = <<AllowedName>>
        /\ erlaubte_skripte[r2] = <<AllowedName>>

====
